---- MODULE Spec2Model ----
(***************************************************************************)
(* Model of scripts/run_on_commit_history.py: the commit sampler           *)
(* (select_commits), the checkout / evaluate / restore cycle               *)
(* (count_words_in_readme, checkout_from_detached_commit) and the driver   *)
(* loop with its artefacts directory (run_on_commit_history).              *)
(*                                                                         *)
(* External processes (git, the counting script) are the environment: each *)
(* call picks one of the outcomes the process can produce.  The code reads *)
(* only stdout and stderr of a command, never its exit status.             *)
(***************************************************************************)
EXTENDS Integers, Sequences, FiniteSets, TLC

VARIABLES
    pc,               \* position of the single control thread
    max_commits,      \* `git rev-list --count HEAD` of the repository (history length)
    select_count,     \* --max-commits argument
    head,             \* the repository's current reference
    artefacts_exists, \* whether the directory 'artefacts' exists
    files,            \* artefacts/<hash>.txt : hash -> content
    metadata_file,    \* artefacts/metadata.json : <<>> when absent, <<record>> when written
    selected_commits, \* result of select_commits: sequence of <<number, hash>>
    idx,              \* index of the loop over selected_commits (1-based)
    metadata,         \* the in-memory metadata dict
    current_branch,   \* local of count_words_in_readme: stripped output of rev-parse
    countoutput,      \* local of count_words_in_readme: stdout of the script
    count_output,     \* local of the loop body
    errors,           \* local of the loop body
    fatal,            \* message of the exception that ended the run, "" when none
    ref_before,       \* history: head when the current cycle started
    checkouts,        \* history: hash -> number of `git switch --detach` commands issued
    restores,         \* history: number of `git checkout <branch>` commands issued
    evaluated,        \* history: hash -> number of invocations of the script
    eval_failed,      \* history: hashes whose evaluation ended with stderr, a non-zero status or an exception
    backend_failed,   \* history: some git command reported an error
    restore_failed,   \* history: hashes whose restore command reported an error
    stale_removed,    \* history: rmtree removed a file of a commit outside this run's sample
    outcomes,         \* history: what switch, script and restore did in the current cycle
    checkout_failed,  \* history: hashes whose rev-parse or switch command reported an error
    last_switched     \* history: position of the last commit given to `git switch`, 0 when none

vars == <<pc, max_commits, select_count, head, artefacts_exists, files, metadata_file,
          selected_commits, idx, metadata, current_branch, countoutput, count_output, errors,
          fatal,
          ref_before, checkouts, restores, evaluated, eval_failed, backend_failed,
          restore_failed, stale_removed, outcomes, checkout_failed, last_switched>>

(***************************************************************************)
(* Bounds                                                                  *)
(***************************************************************************)
\* longest history of a modelled run
MaxCommits == 4
\* longest history given to select_commits alone
MaxSelectTotal == 12

(***************************************************************************)
(* Values                                                                  *)
(***************************************************************************)
\* the commit hash at 1-based position p of `git log --reverse`
HashOf(p) == 100 + p

AllHashes == {HashOf(p) : p \in 1..(MaxCommits + 1)}

\* output of `git log --reverse --format='%H' -n max_commits`, split in lines
CommitHashes(n) == [p \in 1..n |-> HashOf(p)]

BranchName == "main"
\* what `git rev-parse --abbrev-ref HEAD` prints on a detached HEAD
DetachedName == "HEAD"

OnBranch(n) == [branch |-> BranchName, commit |-> HashOf(n)]
DetachedAt(h) == [branch |-> DetachedName, commit |-> h]

NoError == "None"
Sentinel == "cat: README.md: No such file or directory"
ErrCount == "Error fetching total commit count"
ErrHashes == "Error fetching commit hashes"
ErrSampleSize == "Number of selected commits cannot be greater than total commits."
ErrMetadata == "Error fetching commit metadata"
ErrBranch == "Error retrieving current branch"
ErrCheckout == "Error checking out commit"
ErrRevertScript == "Error reverting back to original branch: <script stderr>"
ErrRevertGit == "Error reverting back to original branch: <git stderr>"
ErrRunScript == "Error running counting script on commit"
ErrDecode == "UnicodeDecodeError"

\* what the counting script may print on stdout
ScriptStdout == {"42\n", "cat: README.md: No such file or directory\n"}

\* str.strip() on the script's stdout
Strip(s) ==
    CASE s = "42\n" -> "42"
      [] s = "cat: README.md: No such file or directory\n" -> "cat: README.md: No such file or directory"
      [] OTHER -> s

Min(a, b) == IF a < b THEN a ELSE b

\* the fixed text of an exception message, before the reference and the stderr
\* it is formatted with (lines 161 and 180 format the same text)
ErrorKind(e) ==
    IF e \in {ErrRevertScript, ErrRevertGit}
    THEN "Error reverting back to original branch"
    ELSE e

(***************************************************************************)
(* select_commits, lines 74-98                                             *)
(***************************************************************************)
RECURSIVE Insert(_, _)
\* insert x into the sequence s sorted by first component, after equal keys
Insert(x, s) ==
    IF s = <<>> THEN <<x>>
    ELSE IF x[1] < Head(s)[1] THEN <<x>> \o s
    ELSE <<Head(s)>> \o Insert(x, Tail(s))

RECURSIVE SortedByNumber(_)
\* sorted(selected_commits, key=lambda x: x[0]): stable, ascending
SortedByNumber(s) ==
    IF s = <<>> THEN <<>>
    ELSE Insert(s[Len(s)], SortedByNumber(SubSeq(s, 1, Len(s) - 1)))

\* the step divides by the number of commits, not by the number of gaps
StepSizeByCount(n, k) == (n - 1) \div k

\* the step is rounded up instead of down
StepSizeRoundedUp(n, k) == (n - 1 + k - 2) \div (k - 1)

\* step_size = (max_commits - 1) // (select_count - 1)
StepSize(n, k) == (n - 1) \div (k - 1)

\* the position is taken as 1-based before the conversion of line 94
MiddleCommitPositionOneBased(n, k, i) == Min(i * StepSize(n, k) + 1, n - 1)

\* middle_commit_position (0-based) of the i-th middle commit
MiddleCommitPosition(n, k, i) == Min(i * StepSize(n, k), n - 1)

\* the (number, hash) pairs appended by the loop of lines 91-94
MiddleCommits(n, k, commit_hashes) ==
    IF k > 2
    THEN [i \in 1..(k - 2) |->
            <<MiddleCommitPosition(n, k, i) + 1,
              commit_hashes[MiddleCommitPosition(n, k, i) + 1]>>]
    ELSE <<>>

\* the last commit is appended only when more than one commit is asked for
SelectCommitsLastOnlyIfAsked(n, k, commit_hashes) ==
    IF k = 1 THEN <<<<1, commit_hashes[1]>>>>
    ELSE SortedByNumber(<<<<1, commit_hashes[1]>>, <<n, commit_hashes[Len(commit_hashes)]>>>>
                        \o MiddleCommits(n, k, commit_hashes))

\* select_commits, lines 74-98: first, last, the middle commits, then the sort
SelectCommits(n, k, commit_hashes) ==
    SortedByNumber(<<<<1, commit_hashes[1]>>, <<n, commit_hashes[Len(commit_hashes)]>>>>
                   \o MiddleCommits(n, k, commit_hashes))

Positions(sel) == {sel[i][1] : i \in 1..Len(sel)}
Hashes(sel) == {sel[i][2] : i \in 1..Len(sel)}

(***************************************************************************)
(* Initial states                                                          *)
(***************************************************************************)
NoFiles == [h \in {} |-> ""]

\* metadata = {"created": ..., "commits": {}}, lines 214-217
EmptyMetadata == [created |-> "today", commits |-> NoFiles]
StaleMetadata == [created |-> "earlier", commits |-> NoFiles]

\* no command of the cycle has run yet
NoOutcomes == [switch |-> "", script |-> "", restore |-> ""]

InitLocals ==
    /\ selected_commits = <<>>
    /\ idx = 0
    /\ metadata = EmptyMetadata
    /\ current_branch = ""
    /\ countoutput = ""
    /\ count_output = ""
    /\ errors = NoError
    /\ fatal = ""
    /\ checkouts = [h \in AllHashes |-> 0]
    /\ restores = 0
    /\ evaluated = [h \in AllHashes |-> 0]
    /\ eval_failed = {}
    /\ backend_failed = FALSE
    /\ restore_failed = {}
    /\ stale_removed = FALSE
    /\ outcomes = NoOutcomes
    /\ checkout_failed = {}
    /\ last_switched = 0

\* A run starts on a branch whose tip is the last commit; 'artefacts' is absent
\* or holds whatever an earlier run left.
Init ==
    /\ pc = "start"
    /\ max_commits \in 1..MaxCommits
    /\ select_count \in 1..(MaxCommits + 1)
    /\ head = OnBranch(max_commits)
    /\ ref_before = head
    /\ \/ /\ artefacts_exists = FALSE
          /\ files = NoFiles
          /\ metadata_file = <<>>
       \/ /\ artefacts_exists = TRUE
          /\ \E S \in SUBSET AllHashes : files = [h \in S |-> "stale"]
          /\ metadata_file \in {<<>>, <<StaleMetadata>>}
    /\ InitLocals

(***************************************************************************)
(* Steps of run_on_commit_history                                          *)
(***************************************************************************)
\* d[k] = v on a dict
Put(d, k, v) == [x \in (DOMAIN d) \cup {k} |-> IF x = k THEN v ELSE d[x]]

\* the hash of the commit the loop is at
CommitHash == selected_commits[idx][2]

Bump(f, h) == [f EXCEPT ![h] = @ + 1]

\* an exception leaves run_on_commit_history (no handler): the process ends
Fatal(msg) ==
    /\ pc' = "fatal"
    /\ fatal' = msg

\* an exception leaves count_words_in_readme and is caught at lines 229-231
Caught(msg) ==
    /\ pc' = "record"
    /\ count_output' = Sentinel
    /\ errors' = msg

\* the restore goes to the branch whatever reference was saved
RestoredHeadAlwaysBranch(target) == OnBranch(max_commits)

\* where `git checkout <target> --quiet` puts HEAD when it succeeds:
\* the branch, or nowhere else when the target is the literal HEAD
RestoredHead(target) ==
    IF target = DetachedName THEN head ELSE OnBranch(max_commits)

\* the check compares with one commit more than the history has
SampleSizeRejectedOffByOne == select_count > max_commits + 1

\* select_commits, line 68: if select_count > max_commits
SampleSizeRejected == select_count > max_commits

\* the hashes this run will sample, if its sample size is accepted
SampleHashes ==
    IF select_count > max_commits THEN {}
    ELSE Hashes(SelectCommits(max_commits, select_count, CommitHashes(max_commits)))

\* the per-commit files left by mkdir(exist_ok=True) without the rmtree
ClearedFilesKept == files

\* the per-commit files of 'artefacts' after rmtree and mkdir, lines 196-199
ClearedFiles == NoFiles

\* lines 192-199: shutil.rmtree if present, then mkdir
ClearArtefacts ==
    /\ pc = "start"
    /\ artefacts_exists' = TRUE
    /\ files' = ClearedFiles
    /\ metadata_file' = <<>>
    /\ stale_removed' = (\E h \in DOMAIN files : h \notin SampleHashes)
    /\ UNCHANGED <<outcomes, checkout_failed, last_switched>>
    /\ pc' = "count_total"
    /\ UNCHANGED <<max_commits, select_count, head, selected_commits, idx, metadata,
                   current_branch, countoutput, count_output, errors, fatal, ref_before,
                   checkouts, restores, evaluated, eval_failed, backend_failed,
                   restore_failed>>

\* lines 201-208: git rev-list --count HEAD
CountTotalCommits ==
    /\ pc = "count_total"
    /\ UNCHANGED <<stale_removed, outcomes, checkout_failed, last_switched>>
    /\ \E ok \in BOOLEAN :
          IF ok
          THEN /\ pc' = "select_count_total"
               /\ UNCHANGED <<fatal, backend_failed>>
          ELSE /\ Fatal(ErrCount)
               /\ backend_failed' = TRUE
    /\ UNCHANGED <<max_commits, select_count, head, artefacts_exists, files,
                   metadata_file, selected_commits, idx, metadata, current_branch,
                   countoutput, count_output, errors, ref_before, checkouts, restores,
                   evaluated, eval_failed, restore_failed>>

\* select_commits, lines 59-69: the count again, then the sample size check
SelectCountTotal ==
    /\ pc = "select_count_total"
    /\ UNCHANGED <<stale_removed, outcomes, checkout_failed, last_switched>>
    /\ \E ok \in BOOLEAN :
          IF ~ok
          THEN /\ Fatal(ErrCount)
               /\ backend_failed' = TRUE
          ELSE IF SampleSizeRejected
          THEN /\ Fatal(ErrSampleSize)
               /\ UNCHANGED backend_failed
          ELSE /\ pc' = "get_commit_hashes"
               /\ UNCHANGED <<fatal, backend_failed>>
    /\ UNCHANGED <<max_commits, select_count, head, artefacts_exists, files,
                   metadata_file, selected_commits, idx, metadata, current_branch,
                   countoutput, count_output, errors, ref_before, checkouts, restores,
                   evaluated, eval_failed, restore_failed>>

\* get_commit_hashes (lines 39-45), the rest of select_commits (lines 72-98)
\* and the empty metadata dict (lines 213-217)
GetCommitHashes ==
    /\ pc = "get_commit_hashes"
    /\ UNCHANGED <<stale_removed, outcomes, checkout_failed, last_switched>>
    /\ \E ok \in BOOLEAN :
          IF ok
          THEN /\ selected_commits' =
                     SelectCommits(max_commits, select_count, CommitHashes(max_commits))
               /\ idx' = 1
               /\ metadata' = EmptyMetadata
               /\ pc' = "loop"
               /\ UNCHANGED <<fatal, backend_failed>>
          ELSE /\ Fatal(ErrHashes)
               /\ backend_failed' = TRUE
               /\ UNCHANGED <<selected_commits, idx, metadata>>
    /\ UNCHANGED <<max_commits, select_count, head, artefacts_exists, files,
                   metadata_file, current_branch, countoutput, count_output, errors,
                   ref_before, checkouts, restores, evaluated, eval_failed,
                   restore_failed>>

\* the loop ends after its first commit
LoopFinishedAfterFirst == idx > 1

\* line 220: the for loop has no commit left
LoopFinished == idx > Len(selected_commits)

\* lines 220-223: the next commit of the loop, get_commit_metadata (lines 112-119)
GetCommitMetadata ==
    /\ pc = "loop"
    /\ UNCHANGED <<stale_removed, outcomes, checkout_failed, last_switched>>
    /\ ~LoopFinished
    /\ \E ok \in BOOLEAN :
          IF ok
          THEN /\ pc' = "rev_parse"
               /\ UNCHANGED <<fatal, backend_failed>>
          ELSE /\ Fatal(ErrMetadata)
               /\ backend_failed' = TRUE
    /\ UNCHANGED <<max_commits, select_count, head, artefacts_exists, files,
                   metadata_file, selected_commits, idx, metadata, current_branch,
                   countoutput, count_output, errors, ref_before, checkouts, restores,
                   evaluated, eval_failed, restore_failed>>

\* count_words_in_readme, lines 143-147: git rev-parse --abbrev-ref HEAD
RevParse ==
    /\ pc = "rev_parse"
    /\ UNCHANGED <<stale_removed, outcomes, last_switched>>
    /\ ref_before' = head
    /\ \E ok \in BOOLEAN :
          IF ok
          THEN /\ current_branch' = head.branch
               /\ pc' = "switch"
               /\ UNCHANGED <<count_output, errors, backend_failed, checkout_failed>>
          ELSE /\ Caught(ErrBranch)
               /\ backend_failed' = TRUE
               /\ checkout_failed' = checkout_failed \cup {CommitHash}
               /\ UNCHANGED current_branch
    /\ UNCHANGED <<max_commits, select_count, head, artefacts_exists, files,
                   metadata_file, selected_commits, idx, metadata, countoutput, fatal,
                   checkouts, restores, evaluated, eval_failed, restore_failed>>

\* what `git switch --detach <hash> --quiet` can do
SwitchOutcomes == {"ok", "error", "moved_with_stderr"}

\* count_words_in_readme, lines 149-153
SwitchDetach ==
    /\ pc = "switch"
    /\ UNCHANGED stale_removed
    /\ last_switched' = selected_commits[idx][1]
    /\ checkouts' = Bump(checkouts, CommitHash)
    /\ \E outcome \in SwitchOutcomes :
          /\ head' = IF outcome = "error" THEN head ELSE DetachedAt(CommitHash)
          /\ outcomes' = [outcomes EXCEPT !.switch = outcome]
          /\ checkout_failed' = IF outcome = "ok" THEN checkout_failed
                                ELSE checkout_failed \cup {CommitHash}
          /\ IF outcome = "ok"
             THEN /\ pc' = "script"
                  /\ UNCHANGED <<count_output, errors, backend_failed>>
             ELSE /\ Caught(ErrCheckout)
                  /\ backend_failed' = TRUE
    /\ UNCHANGED <<max_commits, select_count, artefacts_exists, files, metadata_file,
                   selected_commits, idx, metadata, current_branch, countoutput, fatal,
                   ref_before, restores, evaluated, eval_failed, restore_failed>>

\* what `bash <script>` can do: print and exit 0, print and exit non-zero with
\* nothing on stderr, write to stderr, or print bytes subprocess.run cannot decode
ScriptOutcomes == {"ok", "status", "stderr", "exception"}

\* count_words_in_readme, lines 155-158
RunScript ==
    /\ pc = "script"
    /\ UNCHANGED <<stale_removed, checkout_failed, last_switched>>
    /\ evaluated' = Bump(evaluated, CommitHash)
    /\ \E outcome \in ScriptOutcomes :
          /\ eval_failed' = IF outcome = "ok" THEN eval_failed
                            ELSE eval_failed \cup {CommitHash}
          /\ outcomes' = [outcomes EXCEPT !.script = outcome]
          /\ CASE outcome \in {"ok", "status"} ->
                     /\ countoutput' \in ScriptStdout
                     /\ pc' = "restore_after_success"
                     /\ UNCHANGED <<count_output, errors>>
               [] outcome = "stderr" ->
                     /\ countoutput' = ""
                     /\ pc' = "restore_after_error"
                     /\ UNCHANGED <<count_output, errors>>
               [] outcome = "exception" ->
                     /\ Caught(ErrDecode)
                     /\ UNCHANGED countoutput
    /\ UNCHANGED <<max_commits, select_count, head, artefacts_exists, files,
                   metadata_file, selected_commits, idx, metadata, current_branch, fatal,
                   ref_before, checkouts, restores, backend_failed, restore_failed>>

\* what `git checkout <branch> --quiet` can do
RestoreOutcomes == {"ok", "error", "moved_with_stderr"}

\* checkout_from_detached_commit, lines 176-180: the command and its effect on
\* the repository; it raises unless the outcome is "ok"
CheckoutFromDetachedCommit(outcome) ==
    /\ restores' = restores + 1
    /\ outcomes' = [outcomes EXCEPT !.restore = outcome]
    /\ head' = IF outcome = "error" THEN head ELSE RestoredHead(current_branch)
    /\ restore_failed' = IF outcome = "error" THEN restore_failed \cup {CommitHash}
                         ELSE restore_failed
    /\ backend_failed' = (backend_failed \/ outcome # "ok")

\* line 160 tests the restore's own error and line 162 is reached
ScriptFailureErrorOfLine162 == ErrRunScript

\* lines 160-162: the exception raised once the restore has returned; `error`
\* still holds the script's stderr, so line 161 always raises
ScriptFailureError == ErrRevertScript

\* count_words_in_readme, lines 158-162: the script wrote to stderr
RestoreAfterError ==
    /\ pc = "restore_after_error"
    /\ UNCHANGED <<stale_removed, checkout_failed, last_switched>>
    /\ \E outcome \in RestoreOutcomes :
          /\ CheckoutFromDetachedCommit(outcome)
          /\ IF outcome = "ok"
             THEN Caught(ScriptFailureError)
             ELSE Caught(ErrRevertGit)
    /\ UNCHANGED <<max_commits, select_count, artefacts_exists, files, metadata_file,
                   selected_commits, idx, metadata, current_branch, countoutput, fatal,
                   ref_before, checkouts, evaluated, eval_failed>>

\* count_words_in_readme, lines 164-165, and line 228
RestoreAfterSuccess ==
    /\ pc = "restore_after_success"
    /\ UNCHANGED <<stale_removed, checkout_failed, last_switched>>
    /\ \E outcome \in RestoreOutcomes :
          /\ CheckoutFromDetachedCommit(outcome)
          /\ IF outcome = "ok"
             THEN /\ count_output' = Strip(countoutput)
                  /\ errors' = NoError
                  /\ pc' = "record"
             ELSE Caught(ErrRevertGit)
    /\ UNCHANGED <<max_commits, select_count, artefacts_exists, files, metadata_file,
                   selected_commits, idx, metadata, current_branch, countoutput, fatal,
                   ref_before, checkouts, evaluated, eval_failed>>

\* lines 233-243: the commit's entry of metadata and its .txt file
Record ==
    /\ pc = "record"
    /\ UNCHANGED <<stale_removed, checkout_failed, last_switched>>
    /\ outcomes' = NoOutcomes
    /\ metadata' = [metadata EXCEPT !.commits = Put(@, CommitHash, errors)]
    /\ files' = Put(files, CommitHash, count_output)
    /\ idx' = idx + 1
    /\ pc' = "loop"
    /\ UNCHANGED <<max_commits, select_count, head, artefacts_exists, metadata_file,
                   selected_commits, current_branch, countoutput, count_output, errors,
                   fatal, ref_before, checkouts, restores, evaluated, eval_failed,
                   backend_failed, restore_failed>>

\* lines 245-250: metadata.json, after the loop
SaveMetadata ==
    /\ pc = "loop"
    /\ UNCHANGED <<stale_removed, outcomes, checkout_failed, last_switched>>
    /\ LoopFinished
    /\ metadata_file' = <<metadata>>
    /\ pc' = "done"
    /\ UNCHANGED <<max_commits, select_count, head, artefacts_exists, files,
                   selected_commits, idx, metadata, current_branch, countoutput,
                   count_output, errors, fatal, ref_before, checkouts, restores,
                   evaluated, eval_failed, backend_failed, restore_failed>>

Next ==
    \/ ClearArtefacts
    \/ CountTotalCommits
    \/ SelectCountTotal
    \/ GetCommitHashes
    \/ GetCommitMetadata
    \/ RevParse
    \/ SwitchDetach
    \/ RunScript
    \/ RestoreAfterError
    \/ RestoreAfterSuccess
    \/ Record
    \/ SaveMetadata

Spec == Init /\ [][Next]_vars

(***************************************************************************)
(* select_commits alone, on histories up to MaxSelectTotal                 *)
(***************************************************************************)
InitSelect ==
    /\ pc = "select_input"
    /\ max_commits \in 1..MaxSelectTotal
    /\ select_count \in 1..(max_commits + 1)
    /\ head = OnBranch(max_commits)
    /\ ref_before = head
    /\ artefacts_exists = FALSE
    /\ files = NoFiles
    /\ metadata_file = <<>>
    /\ InitLocals

UnchangedBySelect ==
    UNCHANGED <<max_commits, select_count, head, artefacts_exists, files, metadata_file,
                idx, metadata, current_branch, countoutput, count_output, errors,
                ref_before, checkouts, restores, evaluated, eval_failed, backend_failed,
                restore_failed>>

\* select_commits, lines 68-69: the sample size is rejected
SelectReject ==
    /\ pc = "select_input"
    /\ UNCHANGED <<stale_removed, outcomes, checkout_failed, last_switched>>
    /\ SampleSizeRejected
    /\ pc' = "select_rejected"
    /\ fatal' = ErrSampleSize
    /\ UNCHANGED selected_commits
    /\ UnchangedBySelect

\* select_commits, lines 72-98
SelectApply ==
    /\ pc = "select_input"
    /\ UNCHANGED <<stale_removed, outcomes, checkout_failed, last_switched>>
    /\ ~SampleSizeRejected
    /\ selected_commits' =
          SelectCommits(max_commits, select_count, CommitHashes(max_commits))
    /\ pc' = "select_output"
    /\ UNCHANGED fatal
    /\ UnchangedBySelect

NextSelect == SelectReject \/ SelectApply

SelectSpec == InitSelect /\ [][NextSelect]_vars

(***************************************************************************)
(* Properties                                                              *)
(***************************************************************************)
\* the reference the repository is on before the run
PreRunRef == OnBranch(max_commits)

\* the loop has recorded every sampled commit and the run has ended normally
Completed == pc = "done"

\* the aggregate record on disk
SavedCommits == metadata_file[1].commits

\* C1: a cycle that ends by any path other than a failed restore command leaves
\* the repository on the reference it was on when the cycle started, so every
\* loop iteration starts, and the run ends, on the pre-run reference.
C1_ReferenceRestoredAfterCycle ==
    /\ (pc = "record" /\ CommitHash \notin restore_failed) => head = ref_before
    /\ (pc \in {"loop", "done"} /\ restore_failed = {}) => head = PreRunRef

\* C2: once a restore command has failed the run has aborted with that error:
\* it is not in the handler of per-commit errors, not at a later commit, not done.
C2_RestoreFailureAborts ==
    restore_failed # {} => (pc = "fatal" /\ fatal = ErrRevertGit)

\* C3: a completed run in which every git command succeeded and the evaluation
\* failed for exactly one sampled commit has recorded an error for that commit
\* and none for every other sampled commit.
C3_OneEvaluationFailureIsolated ==
    (Completed /\ ~backend_failed /\ Cardinality(eval_failed) = 1) =>
        \A h \in Hashes(selected_commits) :
            /\ h \in DOMAIN SavedCommits
            /\ (SavedCommits[h] # NoError) <=> (h \in eval_failed)

\* C4: for max_commits >= select_count >= 1 the result of select_commits starts
\* at position 1, ends at position max_commits, is strictly ascending by
\* position and is no longer than select_count.
C4_SampleShape ==
    pc = "select_output" =>
        /\ selected_commits[1][1] = 1
        /\ selected_commits[Len(selected_commits)][1] = max_commits
        /\ \A i \in 1..(Len(selected_commits) - 1) :
              selected_commits[i][1] < selected_commits[i + 1][1]
        /\ Len(selected_commits) <= select_count

\* C5: a completed run selected exactly select_count commits and left exactly
\* select_count per-commit files and an aggregate record with exactly
\* select_count entries, each keyed by a sampled hash.
C5_CompletedRunCounts ==
    Completed =>
        /\ Len(selected_commits) = select_count
        /\ Cardinality(DOMAIN files) = select_count
        /\ Len(metadata_file) = 1
        /\ Cardinality(DOMAIN SavedCommits) = select_count
        /\ DOMAIN SavedCommits \subseteq Hashes(selected_commits)

\* C6: for 3 <= select_count <= max_commits the positions selected are 1,
\* max_commits and min(i * step, max_commits - 1) + 1 for i in
\* 1..select_count - 2, with step = (max_commits - 1) div (select_count - 1);
\* 10 commits and 4 samples give positions 1, 4, 7, 10.
C6_MiddlePositions ==
    (pc = "select_output" /\ select_count >= 3) =>
        /\ Positions(selected_commits) =
              {1, max_commits} \cup
              { (IF i * ((max_commits - 1) \div (select_count - 1)) < max_commits - 1
                 THEN i * ((max_commits - 1) \div (select_count - 1))
                 ELSE max_commits - 1) + 1 : i \in 1..(select_count - 2) }
        /\ (max_commits = 10 /\ select_count = 4) =>
              Positions(selected_commits) = {1, 4, 7, 10}

\* C6 witness: select_commits has answered for 10 commits and 4 samples
C6_Witness ==
    /\ pc = "select_output"
    /\ max_commits = 10
    /\ select_count = 4
    /\ Len(selected_commits) = 4
    /\ selected_commits[2] = <<4, HashOf(4)>>

\* C7: with a history of one commit the sample has the single position 1 and
\* the commit is checked out and evaluated once.
C7_SingleCommitOnce ==
    max_commits = 1 =>
        /\ (pc \in {"loop", "done"} => Len(selected_commits) = 1)
        /\ checkouts[HashOf(1)] <= 1
        /\ evaluated[HashOf(1)] <= 1

C9_FatalLeavesNoDirectory ==
    pc = "fatal" => ~artefacts_exists

\* C10: after a completed run the artefacts directory holds exactly the files
\* of this run's sampled commits, each written by this run, and this run's
\* aggregate record, whatever the directory held before.
C10_DirectoryReplaced ==
    Completed =>
        /\ artefacts_exists
        /\ DOMAIN files = Hashes(selected_commits)
        /\ \A h \in DOMAIN files : files[h] # "stale"
        /\ metadata_file = <<metadata>>
        /\ metadata.created = "today"
        /\ DOMAIN metadata.commits = Hashes(selected_commits)

\* C10 witness: a completed run whose rmtree removed a file of a commit that
\* is not in its sample
C10_Witness ==
    /\ Completed
    /\ stale_removed
    /\ DOMAIN files = Hashes(selected_commits)
    /\ Hashes(selected_commits) # AllHashes

\* the cycle of the current commit has ended and its result is about to be recorded
CycleEnded == pc = "record"

\* C11: when the script has run in a cycle, a per-commit error is recorded if
\* it wrote to stderr or exited with a non-zero status (an empty stderr
\* included), and no error is recorded only if it exited with status zero and
\* an empty stderr.
C11_FailureClassification ==
    (CycleEnded /\ outcomes.script # "") =>
        /\ outcomes.script \in {"stderr", "status"} => errors # NoError
        /\ errors = NoError => outcomes.script = "ok"

\* C12: when the switch command of a cycle reported an error, the script was
\* not run in that cycle, the error recorded for the commit is the checkout
\* error, the run goes on to the next commit, and the repository is on the
\* reference it was on before the cycle even if the switch moved HEAD.
C12_CheckoutFailureHandled ==
    (CycleEnded /\ outcomes.switch \in {"error", "moved_with_stderr"}) =>
        /\ outcomes.script = ""
        /\ errors = ErrCheckout
        /\ count_output = Sentinel
        /\ fatal = ""
        /\ head = ref_before

\* what the script's own output looks like once stripped
ScriptResults == {Strip(out) : out \in ScriptStdout}

\* C13: for every commit recorded so far, the error is non-null exactly when
\* its checkout or its evaluation failed; a non-null error goes with the
\* sentinel in the commit's file and a null error with the script's own output.
C13_ErrorFieldDecidesFailure ==
    \A h \in DOMAIN metadata.commits :
        /\ (metadata.commits[h] # NoError) <=> (h \in checkout_failed \cup eval_failed)
        /\ h \in DOMAIN files
        /\ metadata.commits[h] # NoError => files[h] = Sentinel
        /\ metadata.commits[h] = NoError => files[h] \in ScriptResults

\* the positions of the loop at which a commit's cycle is under way
InCycle == pc \in {"rev_parse", "switch", "script", "restore_after_error",
                   "restore_after_success", "record"}

\* C14: the commits are checked out and evaluated one at a time in strictly
\* ascending position order: when a commit's cycle starts every earlier sampled
\* commit has been recorded and every commit checked out before had a smaller
\* position, and the script only ever runs on the commit checked out last.
C14_AscendingOneAtATime ==
    InCycle =>
        /\ \A j \in 1..(idx - 1) :
              /\ selected_commits[j][2] \in DOMAIN files
              /\ selected_commits[j][2] \in DOMAIN metadata.commits
        /\ pc \in {"rev_parse", "switch"} => last_switched < selected_commits[idx][1]
        /\ pc \in {"script", "restore_after_error", "restore_after_success"} =>
              last_switched = selected_commits[idx][1]

C16_AggregateWrittenOnceAtEnd ==
    /\ pc \notin {"start", "done"} => metadata_file = <<>>
    /\ Completed =>
          /\ metadata_file = <<metadata>>
          /\ idx = Len(selected_commits) + 1
          /\ \A j \in 1..Len(selected_commits) :
                /\ selected_commits[j][2] \in DOMAIN files
                /\ selected_commits[j][2] \in DOMAIN SavedCommits

\* C16 witness: a run aborted inside the loop, after a commit's file was
\* written, has no metadata.json
C16_Witness ==
    /\ pc = "fatal"
    /\ fatal = ErrMetadata
    /\ idx >= 2
    /\ DOMAIN files # {}
    /\ metadata_file = <<>>

\* C17: for 3 <= select_count <= max_commits the candidates i * step_size of
\* the middle commits are pairwise distinct and strictly between 0 and
\* max_commits - 1, so the min of line 93 changes none of them, no middle
\* position is 1 or max_commits, and the result has exactly select_count
\* distinct positions.
C17_MiddleCandidatesInside ==
    (pc = "select_output" /\ select_count >= 3) =>
        /\ \A i \in 1..(select_count - 2) :
              /\ 0 < i * StepSize(max_commits, select_count)
              /\ i * StepSize(max_commits, select_count) < max_commits - 1
              /\ MiddleCommitPosition(max_commits, select_count, i) =
                    i * StepSize(max_commits, select_count)
              /\ \A j \in 1..(select_count - 2) :
                    i # j => i * StepSize(max_commits, select_count) #
                             j * StepSize(max_commits, select_count)
        /\ \A j \in 2..(Len(selected_commits) - 1) :
              selected_commits[j][1] \notin {1, max_commits}
        /\ Len(selected_commits) = select_count
        /\ Cardinality(Positions(selected_commits)) = select_count

\* C17 witness: 12 commits and 5 samples, step 2, three middle commits
C17_Witness ==
    /\ pc = "select_output"
    /\ max_commits = 12
    /\ select_count = 5
    /\ Positions(selected_commits) = {1, 3, 5, 7, 12}
    /\ Cardinality(Hashes(selected_commits)) = 5

\* C18: for 3 <= select_count <= max_commits every gap between consecutive
\* selected positions but the last is step = (max_commits - 1) div
\* (select_count - 1), and the last gap is step + (max_commits - 1) mod
\* (select_count - 1), so never smaller than step.
C18_Gaps ==
    (pc = "select_output" /\ select_count >= 3) =>
        /\ \A j \in 1..(Len(selected_commits) - 2) :
              selected_commits[j + 1][1] - selected_commits[j][1] =
                 (max_commits - 1) \div (select_count - 1)
        /\ selected_commits[Len(selected_commits)][1] -
           selected_commits[Len(selected_commits) - 1][1] =
              ((max_commits - 1) \div (select_count - 1)) +
              ((max_commits - 1) % (select_count - 1))
        /\ selected_commits[Len(selected_commits)][1] -
           selected_commits[Len(selected_commits) - 1][1] >=
              (max_commits - 1) \div (select_count - 1)

\* C18 witness: 11 commits and 4 samples, gaps 3, 3 and 4
C18_Witness ==
    /\ pc = "select_output"
    /\ max_commits = 11
    /\ select_count = 4
    /\ selected_commits = <<<<1, HashOf(1)>>, <<4, HashOf(4)>>, <<7, HashOf(7)>>,
                            <<11, HashOf(11)>>>>

\* the repository is detached and nothing the run has saved points back to the
\* branch: a cycle has ended detached, or the cycle under way saved the
\* detached marker as the reference to restore
DetachedForGood ==
    /\ head.branch = DetachedName
    /\ \/ pc \in {"record", "loop", "rev_parse", "done", "fatal"}
       \/ /\ pc \in {"switch", "script", "restore_after_error", "restore_after_success"}
          /\ current_branch = DetachedName

\* C19: once a cycle has ended with the repository detached, every later cycle
\* saves the detached marker as its reference to restore and no later step puts
\* the repository back on the pre-run reference, so the run ends off it.
C19_DetachedForTheRestOfTheRun ==
    [][DetachedForGood => (DetachedForGood' /\ head' # PreRunRef)]_vars

\* C19 witness: after a failed restore a later cycle saved the marker, its
\* restore command succeeded, and the completed run is still detached
C19_Witness ==
    /\ Completed
    /\ restore_failed # {}
    /\ restores >= 2
    /\ current_branch = DetachedName
    /\ metadata.commits[selected_commits[Len(selected_commits)][2]] = NoError
    /\ head.branch = DetachedName
    /\ head # PreRunRef

\* C20: when the script wrote to stderr and the restore succeeded the error of
\* the cycle is the 'Error reverting back to original branch' error with the
\* script's stderr; the 'Error running counting script on commit' error is
\* never raised; so after a restore command every recorded error has the
\* reverting kind, whether the script or the restore failed.
C20_ScriptFailureReportedAsRevert ==
    /\ (CycleEnded /\ outcomes.script = "stderr" /\ outcomes.restore = "ok") =>
          errors = ErrRevertScript
    /\ (CycleEnded /\ outcomes.restore # "" /\ errors # NoError) =>
          ErrorKind(errors) = ErrorKind(ErrRevertGit)
    /\ errors # ErrRunScript
    /\ fatal # ErrRunScript
    /\ \A h \in DOMAIN metadata.commits : metadata.commits[h] # ErrRunScript

\* C20 witness: the script wrote to stderr, the restore put the repository
\* back, and the reverting error is about to be recorded
C20_Witness ==
    /\ CycleEnded
    /\ outcomes.script = "stderr"
    /\ outcomes.restore = "ok"
    /\ head = ref_before
    /\ head = PreRunRef
    /\ errors = ErrRevertScript
    /\ count_output = Sentinel

====
